---- MODULE Spec2Model ----
(***************************************************************************)
(* State-machine model of src/script.js: the OIX classifieds client (one   *)
(* browser session) and the document store / identity provider it talks   *)
(* to.  The client state is the React state of useFirebase, useAds and     *)
(* App; the store state is the ads collection and the per-user favorites   *)
(* documents; subscriptions and favorites transactions in flight are       *)
(* explicit, so that every interleaving of store notifications and user    *)
(* commands is explored.                                                   *)
(***************************************************************************)
EXTENDS Integers, Sequences, FiniteSets

VARIABLES
    db,           \* useFirebase: Firestore handle (Null when the config is missing)
    isAuthReady,  \* useFirebase: set by the first auth callback
    userId,       \* useFirebase: current identity or Null
    page,         \* App: current page
    selectedAd,   \* App: the annotated ad object handed to AdDetails, or Null
    queryState,   \* App: the filter specification
    ads,          \* useAds: last list passed to setAds (sequence of doc ids)
    favorites,    \* useAds: last map passed to setFavorites
    adsSub,       \* the attached ads query listener, or Null
    favSub,       \* the attached favorites document listener, or Null
    adDocs,       \* store: ids of the documents of the ads collection
    adData,       \* store: the (immutable) data of every ad document ever created
    clock,        \* store: server time in seconds
    favDocs,      \* store: per identity, the favorites document or Absent
    txs,          \* favorites transactions in flight
    toggleResult, \* how the last finished toggleFavorite call settled
    parity,       \* history: per identity, the ids toggled an odd number of times
    favDocs0      \* history: the favorites documents of the initial state

vars == <<db, isAuthReady, userId, page, selectedAd, queryState, ads, favorites,
          adsSub, favSub, adDocs, adData, clock, favDocs, txs, toggleResult, parity,
          favDocs0>>

clientVars == <<db, isAuthReady, userId, page, selectedAd, queryState, ads, favorites>>

-----------------------------------------------------------------------------
(* Bounds of the model. *)

\* Number of ads posted in one run (ids 1..MaxAds are handed out in order).
MaxAds == 2

\* Number of toggleFavorite calls that may be in flight at the same time.
MaxTx == 2

\* null (db, userId) and undefined (an optional string, a category).
Null == "null"
Undefined == <<"undefined">>
UndefinedCategory == "undefined"

Users == {"A", "B"}
AdIds == 1..MaxAds
TxIds == 1..MaxTx

-----------------------------------------------------------------------------
(* Strings are sequences of one-character strings, so that toLowerCase,    *)
(* includes and parseInt are computed as the JavaScript functions compute  *)
(* them.                                                                   *)

UpperChars == <<"A","B","C","D","E","F","G","H","I","J","K","L","M",
                "N","O","P","Q","R","S","T","U","V","W","X","Y","Z">>
LowerChars == <<"a","b","c","d","e","f","g","h","i","j","k","l","m",
                "n","o","p","q","r","s","t","u","v","w","x","y","z">>
DigitChars == <<"0","1","2","3","4","5","6","7","8","9">>

LowerChar(c) ==
    IF \E i \in DOMAIN UpperChars : UpperChars[i] = c
    THEN LowerChars[CHOOSE i \in DOMAIN UpperChars : UpperChars[i] = c]
    ELSE c

\* String.prototype.toLowerCase
toLowerCase(s) == [i \in DOMAIN s |-> LowerChar(s[i])]

\* String.prototype.includes
includes(hay, needle) ==
    \E i \in 0..Len(hay) :
        /\ i + Len(needle) <= Len(hay)
        /\ SubSeq(hay, i + 1, i + Len(needle)) = needle

DigitVal(c) == (CHOOSE i \in DOMAIN DigitChars : DigitChars[i] = c) - 1

RECURSIVE parseDigits(_)
parseDigits(s) ==
    IF s = <<>> THEN 0
    ELSE 10 * parseDigits(SubSeq(s, 1, Len(s) - 1)) + DigitVal(s[Len(s)])

\* parseInt / parseFloat of the value of an <input type="number"> with the
\* default step: a non-empty string of decimal digits.
parseInt(s) == parseDigits(s)
parseFloat(s) == parseDigits(s)

\* JavaScript truthiness of an optional string (undefined and '' are falsy).
Truthy(s) == s # Undefined /\ s # <<>>
TruthyCategory(c) == c # UndefinedCategory

-----------------------------------------------------------------------------
(* Inputs. *)

CATEGORIES == {"Cars", "Motorcycles", "Mobile Phones", "Apartments",
               "Electronics", "Jobs", "Services", "Books"}

AllCategories == "All Categories"

\* What the user may have typed into PostAdForm when submitting it.
FormInputs ==
    { [title |-> <<"T","v">>, description |-> <<"O","l","d">>,
       price |-> <<"5">>, category |-> "Electronics", location |-> <<>>],
      [title |-> <<"V","a","n">>, description |-> <<"n","e","w">>,
       price |-> <<"1","2">>, category |-> "Cars", location |-> <<"R","d">>] }

\* What the user may submit in the Sidebar and the Header search box.
CategoryInputs == {AllCategories, "Cars"}
MinPriceInputs == {<<>>, <<"1","0">>}
MaxPriceInputs == {<<>>, <<"1","0">>}
SearchInputs == {<<>>, <<"W","N">>}

EmptyQuery == [search |-> Undefined, category |-> UndefinedCategory,
               minPrice |-> Undefined, maxPrice |-> Undefined]

-----------------------------------------------------------------------------
(* Values that stand for "nothing there". *)

NoFavorites == [k \in {} |-> TRUE]

\* selectedAd = null (App, line 686).
NoAd == [id |-> 0, isSaved |-> FALSE]

\* No listener attached.
NoAdsSub == [attached |-> FALSE, query |-> EmptyQuery, live |-> FALSE,
             pending |-> FALSE, fresh |-> FALSE]
NoFavSub == [attached |-> FALSE, user |-> Null, live |-> FALSE, pending |-> FALSE]

\* A favorites document that does not exist, and one without an adIds field.
AbsentDoc == [exists |-> FALSE, hasAdIds |-> FALSE, adIds |-> NoFavorites]
BareDoc == [exists |-> TRUE, hasAdIds |-> FALSE, adIds |-> NoFavorites]

IdleTx == [pc |-> "idle", user |-> Null, adId |-> 0, write |-> NoFavorites,
           stale |-> FALSE]

NoResult == [cause |-> "none", settled |-> "none"]

-----------------------------------------------------------------------------
(* Pure functions of the client. *)

\* useAds, lines 104-112: the predicate sent to the store.
CoarseMatch(q, ad) ==
    /\ (TruthyCategory(q.category) /\ q.category # AllCategories)
          => ad.category = q.category
    /\ Truthy(q.minPrice) => ad.price >= parseInt(q.minPrice)

\* FineMatch without the price bound of line 127.
FineMatchNoMaxPrice(q, ad) ==
    \/ ~Truthy(q.search)
    \/ includes(toLowerCase(ad.title), toLowerCase(q.search))
    \/ includes(toLowerCase(ad.description), toLowerCase(q.search))
    \/ includes(toLowerCase(ad.location), toLowerCase(q.search))

\* useAds, lines 121-130: the predicate applied to every fetched ad.
FineMatch(q, ad) ==
    LET searchMatch ==
            \/ ~Truthy(q.search)
            \/ includes(toLowerCase(ad.title), toLowerCase(q.search))
            \/ includes(toLowerCase(ad.description), toLowerCase(q.search))
            \/ includes(toLowerCase(ad.location), toLowerCase(q.search))
        maxPriceMatch == ~Truthy(q.maxPrice) \/ ad.price <= parseInt(q.maxPrice)
    IN  searchMatch /\ maxPriceMatch

\* The comparator with its operands exchanged (a.timestamp - b.timestamp).
OlderFirst(a, b) == adData[a].timestamp - adData[b].timestamp < 0

\* The comparator of line 130 is negative: a goes before b.
NewerFirst(a, b) == adData[b].timestamp - adData[a].timestamp < 0

\* Array.prototype.sort with the comparator of line 130 (the sort is stable).
RECURSIVE InsertSorted(_, _)
InsertSorted(sorted, id) ==
    IF sorted = <<>> THEN <<id>>
    ELSE IF NewerFirst(id, sorted[Len(sorted)])
         THEN Append(InsertSorted(SubSeq(sorted, 1, Len(sorted) - 1), id),
                     sorted[Len(sorted)])
         ELSE Append(sorted, id)

RECURSIVE sortNewest(_)
sortNewest(s) ==
    IF s = <<>> THEN <<>>
    ELSE InsertSorted(sortNewest(SubSeq(s, 1, Len(s) - 1)), s[Len(s)])

\* The callback merging the snapshot into the list it already holds.
filteredAdsMerged(q, docs) ==
    sortNewest(SelectSeq(docs \o SelectSeq(ads, LAMBDA id : \A i \in DOMAIN docs : docs[i] # id),
                         LAMBDA id : FineMatch(q, adData[id])))

\* The onSnapshot callback of lines 114-133: the list handed to setAds.
filteredAds(q, docs) ==
    sortNewest(SelectSeq(docs, LAMBDA id : FineMatch(q, adData[id])))

\* Line 142 looking up the ad object instead of its id: no key is found.
isSavedByObject(favs, id) == FALSE

\* useAds, line 142.
isSaved(favs, id) == id \in DOMAIN favs /\ favs[id] = TRUE

\* useAds, lines 139-146: the annotated view.
adsWithFavorites ==
    [i \in DOMAIN ads |-> [id |-> ads[i], isSaved |-> isSaved(favorites, ads[i])]]

\* Dashboard, lines 625-626.
userAds == SelectSeq(adsWithFavorites, LAMBDA ad : adData[ad.id].userId = userId)
favoriteAds == SelectSeq(adsWithFavorites, LAMBDA ad : ad.isSaved)

\* App.renderPage, lines 697-703: the pages are rendered only then.
PagesVisible == isAuthReady /\ db # Null

\* The DELETE AD button rendered for every signed-in user.
DeleteOfferedToAll(ad) == userId # Null

\* The DELETE AD button rendered unconditionally.
DeleteOfferedAlways(ad) == TRUE

\* AdDetails, line 487: the DELETE AD button is rendered.
DeleteOffered(ad) == userId = adData[ad.id].userId

\* Lines 82 and 159 reading a field the documents do not have.
adIdsOfWrongField(doc) == NoFavorites

\* useAds lines 81-85 and toggleFavorite line 159: the map of a document.
adIdsOf(doc) ==
    IF doc.exists THEN (IF doc.hasAdIds THEN doc.adIds ELSE NoFavorites)
    ELSE NoFavorites

\* Lines 161-167 without the delete of line 163.
FlippedNeverRemoves(currentFavorites, adId) ==
    [k \in DOMAIN currentFavorites \cup {adId} |-> TRUE]

\* Lines 161-167 writing back the toggled entry alone.
FlippedAlone(currentFavorites, adId) ==
    IF adId \in DOMAIN currentFavorites /\ currentFavorites[adId] = TRUE
    THEN NoFavorites
    ELSE [k \in {adId} |-> TRUE]

\* toggleFavorite, lines 161-167.
Flipped(currentFavorites, adId) ==
    IF adId \in DOMAIN currentFavorites /\ currentFavorites[adId] = TRUE
    THEN [k \in DOMAIN currentFavorites \ {adId} |-> currentFavorites[k]]
    ELSE [k \in DOMAIN currentFavorites \cup {adId} |->
             IF k = adId THEN TRUE ELSE currentFavorites[k]]

\* The favorites set a stored document stands for (none if it is absent).
FavSet(doc) ==
    IF doc.exists /\ doc.hasAdIds THEN {k \in DOMAIN doc.adIds : doc.adIds[k] = TRUE}
    ELSE {}

-----------------------------------------------------------------------------
(* Subscriptions (useEffect of lines 76-89 and 92-136). *)

\* The dependency list of line 136 without the client-side filter fields.
AdsDepsCoarseOnly(d, r, u, q) == <<d, r, u, q.category, q.minPrice>>

\* The dependency list of line 89 with the filter fields of line 136 added.
FavDepsWithQuery(d, r, u, q) ==
    <<d, r, u, q.category, q.minPrice, q.maxPrice, q.search>>

\* Dependency lists of lines 89 and 136.
FavDeps(d, r, u, q) == <<d, r, u>>
AdsDeps(d, r, u, q) == <<d, r, u, q.category, q.minPrice, q.maxPrice, q.search>>

\* Body of the favorites effect: the listener it attaches, if any.
RunFavEffect(d, r, u) ==
    IF d = Null \/ ~r \/ u = Null THEN NoFavSub
    ELSE [attached |-> TRUE, user |-> u, live |-> TRUE, pending |-> TRUE]

\* Body of the ads effect: the listener it attaches, if any.  The callback
\* closes over the search and maxPrice of the render that ran the effect.
RunAdsEffect(d, r, u, q) ==
    IF d = Null \/ ~r \/ u = Null THEN NoAdsSub
    ELSE [attached |-> TRUE, query |-> q, live |-> TRUE, pending |-> TRUE,
          fresh |-> TRUE]

\* React after a render: an effect whose dependencies changed is cleaned up
\* (its listener detached) and run again; otherwise its listener stays.
Effects ==
    /\ favSub' = IF FavDeps(db', isAuthReady', userId', queryState')
                      = FavDeps(db, isAuthReady, userId, queryState)
                 THEN favSub
                 ELSE RunFavEffect(db', isAuthReady', userId')
    /\ adsSub' = IF AdsDeps(db', isAuthReady', userId', queryState')
                      = AdsDeps(db, isAuthReady, userId, queryState)
                 THEN adsSub
                 ELSE RunAdsEffect(db', isAuthReady', userId', queryState')

\* The store has a change to report to a listener that is attached and working.
Notified(sub) == IF sub.attached /\ sub.live THEN [sub EXCEPT !.pending = TRUE] ELSE sub

\* The orders in which the store may return the documents S.
Orders(S) ==
    {s \in [1..Cardinality(S) -> S] :
        \A i, j \in 1..Cardinality(S) : s[i] = s[j] => i = j}

-----------------------------------------------------------------------------
Init ==
    /\ db \in {Null, "db"}
    /\ isAuthReady = FALSE
    /\ userId = Null
    /\ page = "home"
    /\ selectedAd = NoAd
    /\ queryState = EmptyQuery
    /\ ads = <<>>
    /\ favorites = NoFavorites
    /\ adsSub = NoAdsSub
    /\ favSub = NoFavSub
    /\ adDocs = {}
    /\ adData = <<>>
    /\ clock = 1
    /\ favDocs = [u \in Users |-> IF u = "A" THEN AbsentDoc ELSE BareDoc]
    /\ txs = [t \in TxIds |-> IdleTx]
    /\ toggleResult = NoResult
    /\ parity = [u \in Users |-> {}]
    /\ favDocs0 = favDocs

storeVars == <<adDocs, adData, clock, favDocs, favDocs0>>
toggleVars == <<txs, toggleResult, parity>>

(* Identity provider: onAuthStateChanged callback, lines 42-58. *)

\* The callback fires with a user (restored session, or the sign-in started
\* by lines 48-55 succeeded).
AuthSignedIn(u) ==
    /\ db # Null
    /\ userId = Null
    /\ userId' = u
    /\ isAuthReady' = TRUE
    /\ UNCHANGED <<db, page, selectedAd, queryState, ads, favorites>>
    /\ Effects
    /\ UNCHANGED <<storeVars, toggleVars>>

\* The callback fires with null: no session at start, or Header.handleLogout
\* (lines 287-289, offered when userId is set) signed the user out.
AuthSignedOut ==
    /\ db # Null
    /\ userId # Null \/ ~isAuthReady
    /\ userId' = Null
    /\ isAuthReady' = TRUE
    /\ UNCHANGED <<db, page, selectedAd, queryState, ads, favorites>>
    /\ Effects
    /\ UNCHANGED <<storeVars, toggleVars>>

(* Filter commands. *)

\* Sidebar.handleFilterSubmit, lines 354-362.
handleFilterSubmit(category, minPrice, maxPrice) ==
    /\ PagesVisible /\ page = "home"
    /\ queryState' = [search |-> IF Truthy(queryState.search)
                                 THEN queryState.search ELSE <<>>,
                      category |-> category,
                      minPrice |-> minPrice,
                      maxPrice |-> maxPrice]
    /\ UNCHANGED <<db, isAuthReady, userId, page, selectedAd, ads, favorites>>
    /\ Effects
    /\ UNCHANGED <<storeVars, toggleVars>>

\* Header.handleSearchSubmit, lines 281-285.
handleSearchSubmit(search) ==
    /\ queryState' = [queryState EXCEPT !.search = search]
    /\ page' = "home"
    /\ UNCHANGED <<db, isAuthReady, userId, selectedAd, ads, favorites>>
    /\ Effects
    /\ UNCHANGED <<storeVars, toggleVars>>

\* Header logo, lines 306-309.
LogoClick ==
    /\ page' = "home"
    /\ queryState' = EmptyQuery
    /\ UNCHANGED <<db, isAuthReady, userId, selectedAd, ads, favorites>>
    /\ Effects
    /\ UNCHANGED <<storeVars, toggleVars>>

(* Navigation. *)

\* NavItem Home / Dashboard (lines 761-762), SELL button (line 331) and the
\* redirect after a post (line 531).
setPage(p) ==
    /\ page # p
    /\ page' = p
    /\ UNCHANGED <<db, isAuthReady, userId, selectedAd, queryState, ads, favorites>>
    /\ UNCHANGED <<adsSub, favSub, storeVars, toggleVars>>

\* App.handleAdClick (lines 691-694) on a card of the home grid, or the
\* card's onAdClick on either tab of the dashboard (lines 657-661).
handleAdClick(ad) ==
    /\ PagesVisible
    /\ \/ page = "home" /\ \E i \in DOMAIN adsWithFavorites : adsWithFavorites[i] = ad
       \/ page = "dashboard" /\ \E i \in DOMAIN userAds : userAds[i] = ad
       \/ page = "dashboard" /\ \E i \in DOMAIN favoriteAds : favoriteAds[i] = ad
    /\ selectedAd' = ad
    /\ page' = "details"
    /\ UNCHANGED <<db, isAuthReady, userId, queryState, ads, favorites>>
    /\ UNCHANGED <<adsSub, favSub, storeVars, toggleVars>>

(* Store notifications. *)

\* The ads listener delivers a snapshot: callback of lines 114-133.  The
\* store returns the matching documents in an order of its own.
AdsSnapshot ==
    /\ adsSub.attached /\ adsSub.live /\ adsSub.pending
    /\ \E docs \in Orders({id \in adDocs : CoarseMatch(adsSub.query, adData[id])}) :
           ads' = filteredAds(adsSub.query, docs)
    /\ adsSub' = [adsSub EXCEPT !.pending = FALSE, !.fresh = FALSE]
    /\ UNCHANGED <<db, isAuthReady, userId, page, selectedAd, queryState, favorites>>
    /\ UNCHANGED <<favSub, storeVars, toggleVars>>

\* An error callback that also empties the list.
AdsErrorClearsView ==
    /\ adsSub.attached /\ adsSub.live
    /\ adsSub' = [adsSub EXCEPT !.live = FALSE, !.pending = FALSE]
    /\ ads' = <<>>
    /\ UNCHANGED <<db, isAuthReady, userId, page, selectedAd, queryState, favorites>>
    /\ UNCHANGED <<favSub, storeVars, toggleVars>>

\* The ads listener fails: error callback of line 133; the store ends it.
AdsError ==
    /\ adsSub.attached /\ adsSub.live
    /\ adsSub' = [adsSub EXCEPT !.live = FALSE, !.pending = FALSE]
    /\ UNCHANGED <<clientVars, favSub, storeVars, toggleVars>>

\* The callback of lines 80-86 without its else branch: a missing document
\* leaves the favorites as they were.
FavoritesSnapshotSkipsAbsent ==
    /\ favSub.attached /\ favSub.live /\ favSub.pending
    /\ favorites' = IF favDocs[favSub.user].exists
                    THEN adIdsOf(favDocs[favSub.user]) ELSE favorites
    /\ favSub' = [favSub EXCEPT !.pending = FALSE]
    /\ UNCHANGED <<db, isAuthReady, userId, page, selectedAd, queryState, ads>>
    /\ UNCHANGED <<adsSub, storeVars, toggleVars>>

\* The favorites listener delivers a snapshot: callback of lines 80-86.
FavoritesSnapshot ==
    /\ favSub.attached /\ favSub.live /\ favSub.pending
    /\ favorites' = adIdsOf(favDocs[favSub.user])
    /\ favSub' = [favSub EXCEPT !.pending = FALSE]
    /\ UNCHANGED <<db, isAuthReady, userId, page, selectedAd, queryState, ads>>
    /\ UNCHANGED <<adsSub, storeVars, toggleVars>>

\* The favorites listener fails: error callback of line 86.
FavoritesError ==
    /\ favSub.attached /\ favSub.live
    /\ favSub' = [favSub EXCEPT !.live = FALSE, !.pending = FALSE]
    /\ UNCHANGED <<clientVars, adsSub, storeVars, toggleVars>>

(* Listings: postAd (lines 173-183) and deleteAd (lines 185-189). *)

\* The document written by postAd from the form data of handleSubmit.
NewAd(form, u, t) ==
    [title |-> form.title,
     description |-> form.description,
     price |-> parseFloat(form.price),
     category |-> form.category,
     location |-> IF form.location # <<>> THEN form.location
                  ELSE <<"U","n","k","n","o","w","n">>,
     userId |-> u,
     timestamp |-> t]

\* PostAdForm.handleSubmit, lines 516-538, with an identity: addDoc creates
\* the document under the next id, stamped with the server time.
\* The server time t is the time of the last write or later.
handleSubmit(form, t) ==
    /\ PagesVisible /\ page = "post"
    /\ db # Null /\ userId # Null
    /\ Len(adData) < MaxAds
    /\ t \in {clock, clock + 1}
    /\ clock' = t
    /\ adData' = Append(adData, NewAd(form, userId, t))
    /\ adDocs' = adDocs \cup {Len(adData) + 1}
    /\ adsSub' = Notified(adsSub)
    /\ UNCHANGED <<clientVars, favSub, favDocs, favDocs0, toggleVars>>

\* AdDetails.handleDelete, lines 418-423, behind the button of lines 487-495.
handleDelete ==
    /\ PagesVisible /\ page = "details"
    /\ selectedAd # NoAd
    /\ DeleteOffered(selectedAd)
    /\ adDocs' = IF db # Null THEN adDocs \ {selectedAd.id} ELSE adDocs
    /\ adsSub' = Notified(adsSub)
    /\ page' = "home"
    /\ UNCHANGED <<db, isAuthReady, userId, selectedAd, queryState, ads, favorites>>
    /\ UNCHANGED <<favSub, adData, clock, favDocs, favDocs0, toggleVars>>

(* Favorites: toggleFavorite, lines 152-171. *)

\* The ad whose heart (AdCard, lines 233-239, on the home grid) or SAVE AD
\* button (AdDetails, lines 412-416) can be clicked.
Clickable(adId) ==
    /\ PagesVisible
    /\ \/ page = "home" /\ \E i \in DOMAIN ads : ads[i] = adId
       \/ page = "details" /\ selectedAd # NoAd /\ selectedAd.id = adId

\* A click with db and userId set: toggleFavorite starts transaction t.
ToggleStart(adId, t) ==
    /\ Clickable(adId)
    /\ db # Null /\ userId # Null
    /\ txs[t].pc = "idle"
    /\ txs' = [txs EXCEPT ![t] = [IdleTx EXCEPT !.pc = "get", !.user = userId,
                                                !.adId = adId]]
    /\ UNCHANGED <<clientVars, adsSub, favSub, storeVars, toggleResult, parity>>

\* A click without db or userId: the guards of lines 153, 236 and 413
\* return; the call settles like any other.
ToggleRejected(adId) ==
    /\ Clickable(adId)
    /\ db = Null \/ userId = Null
    /\ toggleResult' = [cause |-> "rejected", settled |-> "resolved"]
    /\ UNCHANGED <<clientVars, adsSub, favSub, storeVars, txs, parity>>

\* Lines 158-169: the update function reads the document, flips the entry
\* and buffers the write.
TxRun(t) ==
    /\ txs[t].pc = "get"
    /\ txs' = [txs EXCEPT ![t].pc = "set",
                          ![t].write = Flipped(adIdsOf(favDocs[txs[t].user]), txs[t].adId),
                          ![t].stale = FALSE]
    /\ UNCHANGED <<clientVars, adsSub, favSub, storeVars, toggleResult, parity>>

\* A plain read followed by a plain write: no conflict is ever seen.
NoConflict(tx) == FALSE

\* runTransaction (line 157) commits only if the document it read has not
\* been written since; otherwise it runs the update function again.
Conflict(tx) == tx.stale

TxCommit(t) ==
    /\ txs[t].pc = "set"
    /\ ~Conflict(txs[t])
    /\ favDocs' = [favDocs EXCEPT ![txs[t].user] =
                      [exists |-> TRUE, hasAdIds |-> TRUE, adIds |-> txs[t].write]]
    /\ txs' = [o \in TxIds |->
                 IF o = t THEN IdleTx
                 ELSE IF txs[o].pc = "set" /\ txs[o].user = txs[t].user
                      THEN [txs[o] EXCEPT !.stale = TRUE]
                      ELSE txs[o]]
    /\ toggleResult' = [cause |-> "committed", settled |-> "resolved"]
    /\ parity' = [parity EXCEPT ![txs[t].user] =
                     IF txs[t].adId \in @ THEN @ \ {txs[t].adId}
                     ELSE @ \cup {txs[t].adId}]
    /\ favSub' = IF favSub.user = txs[t].user THEN Notified(favSub) ELSE favSub
    /\ UNCHANGED <<clientVars, adsSub, adDocs, adData, clock, favDocs0>>

TxRetry(t) ==
    /\ txs[t].pc = "set"
    /\ Conflict(txs[t])
    /\ txs' = [txs EXCEPT ![t].pc = "get", ![t].write = NoFavorites, ![t].stale = FALSE]
    /\ UNCHANGED <<clientVars, adsSub, favSub, storeVars, toggleResult, parity>>

\* The store fails the transaction: runTransaction rejects, nothing is written.
TxAbort(t) ==
    /\ txs[t].pc # "idle"
    /\ txs' = [txs EXCEPT ![t] = IdleTx]
    /\ toggleResult' = [cause |-> "aborted", settled |-> "rejected"]
    /\ UNCHANGED <<clientVars, adsSub, favSub, storeVars, parity>>

-----------------------------------------------------------------------------
(* The whole program. *)

Pages == {"home", "dashboard", "post"}
Cards == {[id |-> id, isSaved |-> saved] : id \in AdIds, saved \in BOOLEAN}

\* Transactions are started in the lowest free slot.
LowestFree(t) == txs[t].pc = "idle" /\ \A o \in TxIds : txs[o].pc = "idle" => t <= o

Next ==
    \/ \E u \in Users : AuthSignedIn(u)
    \/ AuthSignedOut
    \/ \E c \in CategoryInputs, lo \in MinPriceInputs, hi \in MaxPriceInputs :
          handleFilterSubmit(c, lo, hi)
    \/ \E s \in SearchInputs : handleSearchSubmit(s)
    \/ LogoClick
    \/ \E p \in Pages : setPage(p)
    \/ \E ad \in Cards : handleAdClick(ad)
    \/ AdsSnapshot
    \/ AdsError
    \/ FavoritesSnapshot
    \/ FavoritesError
    \/ \E form \in FormInputs, t \in {clock, clock + 1} : handleSubmit(form, t)
    \/ handleDelete
    \/ \E id \in AdIds, t \in TxIds : LowestFree(t) /\ ToggleStart(id, t)
    \/ \E id \in AdIds : ToggleRejected(id)
    \/ \E t \in TxIds : TxRun(t)
    \/ \E t \in TxIds : TxCommit(t)
    \/ \E t \in TxIds : TxRetry(t)
    \/ \E t \in TxIds : TxAbort(t)

Spec == Init /\ [][Next]_vars

-----------------------------------------------------------------------------
(* The specifications that are explored.  The listing query engine and the *)
(* favorites ledger share no state but the identity and the list of ads,   *)
(* so each is explored with the commands that reach its state; every       *)
(* specification below takes its steps from Next.                          *)

\* The form submitted where no filter is ever set.
FavForm == CHOOSE form \in FormInputs : form.location = <<>>

\* Listing query engine: filter commands, ads listener, posting, deleting.
NextQuery ==
    \/ \E u \in Users : AuthSignedIn(u)
    \/ AuthSignedOut
    \/ \E c \in CategoryInputs, lo \in MinPriceInputs, hi \in MaxPriceInputs :
          handleFilterSubmit(c, lo, hi)
    \/ \E s \in SearchInputs : handleSearchSubmit(s)
    \/ LogoClick
    \/ \E p \in Pages : setPage(p)
    \/ \E ad \in Cards : handleAdClick(ad)
    \/ AdsSnapshot
    \/ AdsError
    \/ \E form \in FormInputs, t \in {clock, clock + 1} : handleSubmit(form, t)
    \/ handleDelete

SpecQuery == Init /\ [][NextQuery]_vars

\* Favorites ledger and join: one toggle at a time, both listeners, the
\* identity coming and going.
NextJoin ==
    \/ \E u \in Users : AuthSignedIn(u)
    \/ AuthSignedOut
    \/ \E p \in {"home", "post"} : setPage(p)
    \/ AdsSnapshot
    \/ FavoritesSnapshot
    \/ FavoritesError
    \/ handleSubmit(FavForm, clock + 1)
    \/ \E id \in AdIds : ToggleStart(id, 1)
    \/ \E id \in AdIds : ToggleRejected(id)
    \/ TxRun(1)
    \/ TxCommit(1)
    \/ TxAbort(1)

SpecJoin == Init /\ [][NextJoin]_vars

\* The store delivers the change notifications of an attached favorites
\* listener.
FairJoin == SpecJoin /\ WF_vars(FavoritesSnapshot)

\* Deleting: the details page and its buttons, both listeners, one toggle
\* at a time.
NextDelete ==
    \/ \E u \in Users : AuthSignedIn(u)
    \/ AuthSignedOut
    \/ \E p \in {"home", "post"} : setPage(p)
    \/ \E ad \in Cards : handleAdClick(ad)
    \/ AdsSnapshot
    \/ FavoritesSnapshot
    \/ handleSubmit(FavForm, clock + 1)
    \/ handleDelete
    \/ \E id \in AdIds : ToggleStart(id, 1)
    \/ TxRun(1)
    \/ TxCommit(1)

SpecDelete == Init /\ [][NextDelete]_vars

\* Commands with and without an identity: posting, deleting and toggling
\* while the identity comes and goes.
NextGuard ==
    \/ \E u \in Users : AuthSignedIn(u)
    \/ AuthSignedOut
    \/ \E p \in {"home", "post"} : setPage(p)
    \/ \E ad \in Cards : handleAdClick(ad)
    \/ AdsSnapshot
    \/ handleSubmit(FavForm, clock + 1)
    \/ handleDelete
    \/ \E id \in AdIds : ToggleStart(id, 1)
    \/ \E id \in AdIds : ToggleRejected(id)
    \/ TxRun(1)
    \/ TxCommit(1)

SpecGuard == Init /\ [][NextGuard]_vars

\* The two streams side by side: filter changes, deliveries and failures of
\* both listeners, one toggle at a time.
NextStreams ==
    \/ \E u \in Users : AuthSignedIn(u)
    \/ AuthSignedOut
    \/ \E s \in SearchInputs : handleSearchSubmit(s)
    \/ LogoClick
    \/ setPage("post")
    \/ AdsSnapshot
    \/ AdsError
    \/ FavoritesSnapshot
    \/ FavoritesError
    \/ handleSubmit(FavForm, clock + 1)
    \/ \E id \in AdIds : ToggleStart(id, 1)
    \/ TxRun(1)
    \/ TxCommit(1)

SpecStreams == Init /\ [][NextStreams]_vars

\* Concurrent toggles: a session that is signed in and has received its
\* first snapshots, over a store that already holds ads and a favorites
\* document of any content.
InitialDocs ==
    {AbsentDoc, BareDoc} \cup
    {[exists |-> TRUE, hasAdIds |-> TRUE, adIds |-> [k \in S |-> TRUE]] : S \in SUBSET AdIds}

InitLedger ==
    /\ db = "db"
    /\ isAuthReady = TRUE
    /\ userId \in Users
    /\ page = "home"
    /\ selectedAd = NoAd
    /\ queryState = EmptyQuery
    /\ adData = [i \in AdIds |-> NewAd(FavForm, "A", i)]
    /\ adDocs = AdIds
    /\ clock = MaxAds
    /\ ads = [i \in AdIds |-> MaxAds + 1 - i]
    /\ favDocs \in {fd \in [Users -> InitialDocs] : \A u \in Users \ {userId} : fd[u] = AbsentDoc}
    /\ favDocs0 = favDocs
    /\ favorites = adIdsOf(favDocs[userId])
    /\ adsSub = [RunAdsEffect(db, isAuthReady, userId, queryState)
                    EXCEPT !.pending = FALSE, !.fresh = FALSE]
    /\ favSub = [RunFavEffect(db, isAuthReady, userId) EXCEPT !.pending = FALSE]
    /\ txs = [t \in TxIds |-> IdleTx]
    /\ toggleResult = NoResult
    /\ parity = [u \in Users |-> {}]

NextLedger ==
    \/ \E id \in AdIds, t \in TxIds : LowestFree(t) /\ ToggleStart(id, t)
    \/ \E t \in TxIds : TxRun(t)
    \/ \E t \in TxIds : TxCommit(t)
    \/ \E t \in TxIds : TxRetry(t)
    \/ \E t \in TxIds : TxAbort(t)

SpecLedger == InitLedger /\ [][NextLedger]_vars

-----------------------------------------------------------------------------
(* Properties of the listing query engine (SpecQuery). *)

Price(id) == adData[id].price
Timestamp(id) == adData[id].timestamp

\* The four predicates of a filter specification q on a listing.
CategoryOk(q, ad) ==
    q.category \in {UndefinedCategory, AllCategories} \/ ad.category = q.category
MinPriceOk(q, ad) == q.minPrice \in {Undefined, <<>>} \/ ad.price >= parseInt(q.minPrice)
MaxPriceOk(q, ad) == q.maxPrice \in {Undefined, <<>>} \/ ad.price <= parseInt(q.maxPrice)
SearchOk(q, ad) ==
    \/ q.search \in {Undefined, <<>>}
    \/ \E text \in {ad.title, ad.description, ad.location} :
          includes(toLowerCase(text), toLowerCase(q.search))
MatchesFilter(q, ad) ==
    CategoryOk(q, ad) /\ MinPriceOk(q, ad) /\ MaxPriceOk(q, ad) /\ SearchOk(q, ad)

ViewMatchesFilter == \A i \in DOMAIN ads : MatchesFilter(queryState, adData[ads[i]])

\* The listener attached for the current filter has delivered a snapshot.
AdsDelivered == adsSub.attached /\ ~adsSub.fresh

\* C1, as claimed: in every reachable state every listing of the view
\* satisfies the four predicates of the filter that is currently set, also
\* between a filter command and the first snapshot for the new filter.
C1_ViewAlwaysMatchesFilter == ViewMatchesFilter

\* C1, amended: once the listener attached for the current filter has
\* delivered a snapshot, every listing of the view satisfies the four
\* predicates of the current filter (category, minimum price, maximum price,
\* search substring); until then the view keeps the previous list.
C1_ViewMatchesDeliveredFilter == AdsDelivered => ViewMatchesFilter

\* A delivered view that left out a stored listing above the maximum price.
C1_Witness ==
    /\ AdsDelivered
    /\ Len(ads) >= 1
    /\ Truthy(queryState.maxPrice)
    /\ \E id \in adDocs : ~MaxPriceOk(queryState, adData[id])

\* C6: in every reachable state the view is ordered by creation timestamp
\* descending: every adjacent pair (a, b) has a.timestamp >= b.timestamp,
\* whatever order the store returned the documents in.
C6_ViewSortedNewestFirst ==
    \A i \in 1..(Len(ads) - 1) : Timestamp(ads[i]) >= Timestamp(ads[i + 1])

\* A view in which the later document id is the newer one and comes first.
C6_Witness ==
    /\ Len(ads) = 2
    /\ Timestamp(ads[1]) > Timestamp(ads[2])
    /\ ads[1] > ads[2]

\* A filter command changes the maximum price and nothing else.
OnlyMaxPriceChanges ==
    /\ queryState'.maxPrice # queryState.maxPrice
    /\ queryState'.category = queryState.category
    /\ queryState'.minPrice = queryState.minPrice
    /\ queryState'.search = queryState.search

ViewWithinMaxPrice(q, view) ==
    Truthy(q.maxPrice) => \A i \in DOMAIN view : Price(view[i]) <= parseInt(q.maxPrice)

\* C7, as claimed: a change of the maximum price alone leaves the attached
\* listener in place (no detach, no new store query) and the listings above
\* the new maximum leave the view by client-side re-filtering.
C7_MaxPriceRefiltersInPlace ==
    [][(OnlyMaxPriceChanges /\ adsSub.attached)
          => /\ adsSub'.attached
             /\ adsSub'.pending = adsSub.pending
             /\ adsSub'.fresh = adsSub.fresh
             /\ ViewWithinMaxPrice(queryState', ads')]_vars

\* C7, amended: a change of the maximum price alone detaches the listener
\* and attaches a new one with the same store query (category, minimum
\* price); the command leaves the view as it was, and the listings above the
\* new maximum leave it when the first snapshot of the new listener is
\* filtered on the client.
C7_MaxPriceResubscribes ==
    [][/\ (OnlyMaxPriceChanges /\ adsSub.attached)
             => /\ adsSub'.attached /\ adsSub'.live
                /\ adsSub'.pending /\ adsSub'.fresh
                /\ adsSub'.query = queryState'
                /\ adsSub'.query.category = adsSub.query.category
                /\ adsSub'.query.minPrice = adsSub.query.minPrice
                /\ ads' = ads
       /\ (adsSub.attached /\ adsSub.fresh /\ adsSub'.attached /\ ~adsSub'.fresh)
             => ViewWithinMaxPrice(queryState', ads')]_vars

\* After a change of the maximum price the view still shows a listing above
\* the new maximum, the new listener not having delivered yet.
C7_Witness ==
    /\ adsSub.attached /\ adsSub.fresh /\ adsSub.pending
    /\ Truthy(queryState.maxPrice)
    /\ \E i \in DOMAIN ads : ads[i] \in adDocs /\ Price(ads[i]) > parseInt(queryState.maxPrice)

\* C9: a listing leaves the store only in a step taken while the current
\* identity is its owner: no command of another identity deletes it.
C9_OnlyOwnerDeletes ==
    [][\A id \in adDocs : id \notin adDocs' => userId = adData[id].userId]_vars

\* Another identity looks at a stored listing on the details page, after an
\* owner has deleted a listing.
C9_Witness ==
    /\ page = "details" /\ PagesVisible
    /\ selectedAd.id \in adDocs
    /\ userId # Null /\ userId # adData[selectedAd.id].userId
    /\ \E id \in DOMAIN adData : id \notin adDocs

-----------------------------------------------------------------------------
(* Properties of the favorites ledger (SpecLedger, SpecJoin, FairJoin). *)

SymDiff(S, T) == (S \ T) \cup (T \ S)
InFlight(u) == \E t \in TxIds : txs[t].pc # "idle" /\ txs[t].user = u

\* C2: whatever the interleaving of the toggles of one identity, every
\* committed toggle takes effect exactly once: the stored favorites are the
\* initial favorites with the membership of each id flipped once per
\* committed toggle of it (no update lost, none applied twice).
C2_TogglesAppliedExactlyOnce ==
    \A u \in Users : FavSet(favDocs[u]) = SymDiff(FavSet(favDocs0[u]), parity[u])

\* Two toggles of one id overlapped: one has committed, the other had read
\* the document before that commit and is about to be retried.
C2_Witness ==
    \E t \in TxIds :
        /\ txs[t].pc = "set" /\ txs[t].stale
        /\ txs[t].adId \in parity[txs[t].user]
        /\ txs[t].adId \notin FavSet(favDocs0[txs[t].user])
        /\ isSaved(txs[t].write, txs[t].adId)

\* C3: for every identity, id and initial favorites record (absent ones
\* included), once every id has been toggled an even number of times (two
\* toggles of one id in sequence) the favorites set is the initial one.
C3_TwoTogglesRestore ==
    \A u \in Users :
        (~InFlight(u) /\ parity[u] = {}) => FavSet(favDocs[u]) = FavSet(favDocs0[u])

\* An identity without a record has toggled an id on and off again.
C3_Witness ==
    \E u \in Users :
        /\ favDocs0[u] = AbsentDoc
        /\ favDocs[u].exists /\ favDocs[u].hasAdIds
        /\ ~InFlight(u) /\ parity[u] = {}
        /\ toggleResult.cause = "committed"

\* The favorites listener of u is attached and working.
FavListening(u) == favSub.attached /\ favSub.live /\ favSub.user = u
StoredFor(u, x) == FavListening(u) /\ x \in FavSet(favDocs[u])
RemovedFor(u, x) == FavListening(u) /\ x \notin FavSet(favDocs[u])

\* C4: while the favorites listener of U stays attached and working, a
\* committed toggle that added X leads to a delivered set containing X, and
\* one that removed X leads to a delivered set without X (unless the
\* membership is flipped again first).
C4_ToggleRoundTrip ==
    \A u \in Users, x \in AdIds :
        /\ StoredFor(u, x) ~> (isSaved(favorites, x) \/ ~StoredFor(u, x))
        /\ RemovedFor(u, x) ~> (~isSaved(favorites, x) \/ ~RemovedFor(u, x))

\* The second toggle has been delivered: the record exists, holds nothing,
\* and so does the delivered set.
C4_Witness ==
    /\ userId # Null /\ FavListening(userId) /\ ~favSub.pending
    /\ favDocs[userId].hasAdIds /\ FavSet(favDocs[userId]) = {}
    /\ parity[userId] = {}
    /\ toggleResult.cause = "committed"
    /\ favorites = NoFavorites

\* C5: in every reachable state every listing of the annotated view is
\* flagged saved exactly when its id is a member of the latest favorites
\* emission, whichever listener delivered first.
C5_JoinMatchesFavorites ==
    \A i \in DOMAIN adsWithFavorites :
        adsWithFavorites[i].isSaved <=> adsWithFavorites[i].id \in DOMAIN favorites

\* A view with a saved and an unsaved listing.
C5_Witness ==
    \E i, j \in DOMAIN adsWithFavorites :
        adsWithFavorites[i].isSaved /\ ~adsWithFavorites[j].isSaved

\* C8, as claimed: a toggle that did not commit (rejected for want of a
\* database handle or an identity, or aborted) is reported to the caller by
\* an outcome that differs from the one of a committed toggle, which
\* resolves.
C8_FailedToggleIsReported ==
    toggleResult.cause \in {"rejected", "aborted"} => toggleResult.settled # "resolved"

\* C8, the part about the store: only a commit writes a favorites record, and
\* it writes the record with exactly one membership flipped.
C8_FailedToggleLeavesStore ==
    [][\A u \in Users :
          favDocs'[u] # favDocs[u]
             => /\ toggleResult'.cause = "committed"
                /\ \E x \in AdIds : FavSet(favDocs'[u]) = SymDiff(FavSet(favDocs[u]), {x})]_vars

-----------------------------------------------------------------------------
(* Properties of deleting (SpecDelete). *)

ViewIds == {ads[i] : i \in DOMAIN ads}

\* The ads listener has delivered the latest state of the store.
AdsSynced == adsSub.attached /\ adsSub.live /\ ~adsSub.pending /\ ~adsSub.fresh

\* C10: once the store has delivered the snapshot that follows a delete,
\* the view holds exactly the stored listings that match the filter, each
\* once: no entry for a deleted listing, whether or not the favorites still
\* hold its id.
C10_DeletedListingLeavesView ==
    AdsSynced =>
        /\ ViewIds = {id \in adDocs : MatchesFilter(queryState, adData[id])}
        /\ Len(ads) = Cardinality(ViewIds)
        /\ DOMAIN adsWithFavorites = DOMAIN ads

\* The favorites still hold the id of a deleted listing, and the delivered
\* view shows the listing that is left.
C10_Witness ==
    /\ AdsSynced
    /\ Len(ads) >= 1
    /\ \E id \in DOMAIN adData : id \notin adDocs /\ isSaved(favorites, id)

-----------------------------------------------------------------------------
(* Properties of mutations on listings that are gone (SpecDelete). *)

\* The listings that were created and have been deleted since.
Deleted == DOMAIN adData \ adDocs

\* C11, as claimed: a toggle for the id of a deleted listing leaves every
\* favorites record as it was (no membership of a deleted id ever changes),
\* and a delete of a deleted listing leaves the store as it was.
C11_MutationOfDeletedIsInert ==
    [][/\ \A u \in Users, x \in Deleted :
             x \in FavSet(favDocs'[u]) <=> x \in FavSet(favDocs[u])
       /\ (selectedAd.id \in Deleted /\ page = "details" /\ page' = "home")
             => adDocs' = adDocs /\ adData' = adData]_vars

-----------------------------------------------------------------------------
(* Properties of commands without an identity (SpecGuard). *)

\* C12: in a step taken while no identity is established no listing is
\* written or deleted and no favorites transaction is started; a favorites
\* record changes then only by the commit of a transaction that was started
\* while an identity was established.
C12_NoIdentityNoMutation ==
    [][userId = Null =>
          /\ adDocs' = adDocs /\ adData' = adData
          /\ \A t \in TxIds : txs[t].pc = "idle" => txs'[t].pc = "idle"
          /\ \A u \in Users :
                favDocs'[u] # favDocs[u]
                   => \E t \in TxIds : txs[t].pc = "set" /\ txs[t].user = u]_vars

\* Signed out on the details page of a stored listing, a click on its
\* SAVE AD button has been rejected.
C12_Witness ==
    /\ userId = Null /\ PagesVisible
    /\ page = "details" /\ selectedAd.id \in adDocs
    /\ toggleResult.cause = "rejected"

-----------------------------------------------------------------------------
(* Properties of the dashboard and the details page. *)

\* The favorites listener of the current identity has delivered the latest
\* record.
FavSynced ==
    /\ userId # Null
    /\ favSub.attached /\ favSub.live /\ ~favSub.pending /\ favSub.user = userId

TabIds(tab) == {tab[i].id : i \in DOMAIN tab}

\* C13, as claimed: whatever the filter, once the streams have delivered the
\* My Ads tab holds exactly the stored listings owned by the current
\* identity and the Favorites tab exactly the stored listings whose id is in
\* the favorites set of the current identity.
C13_DashboardTabsComplete ==
    /\ (userId # Null /\ AdsSynced)
          => TabIds(userAds) = {id \in adDocs : adData[id].userId = userId}
    /\ (AdsSynced /\ FavSynced)
          => TabIds(favoriteAds) = adDocs \cap FavSet(favDocs[userId])

\* C14, as claimed: once the favorites stream has delivered, the is-saved
\* flag shown on the details page of the selected listing equals the
\* membership of the listing in the latest favorites set.
C14_DetailsFlagIsCurrent ==
    (PagesVisible /\ page = "details" /\ FavSynced)
        => (selectedAd.isSaved <=> isSaved(favorites, selectedAd.id))

-----------------------------------------------------------------------------
(* Properties of the favorites stream (SpecJoin). *)

\* C15: once the favorites listener of an identity has delivered a record
\* that does not exist, has no adIds mapping or holds an empty mapping, the
\* delivered set is empty and no listing of the view is flagged saved: the
\* three are not told apart.
C15_AbsentRecordIsEmptySet ==
    (FavSynced /\ FavSet(favDocs[userId]) = {})
        => /\ favorites = NoFavorites
           /\ \A i \in DOMAIN adsWithFavorites : ~adsWithFavorites[i].isSaved

\* An identity without a record looks at a list of listings after another
\* identity has saved one.
C15_Witness ==
    /\ FavSynced /\ favDocs[userId] = AbsentDoc
    /\ Len(ads) >= 1
    /\ \E u \in Users : FavSet(favDocs[u]) # {}

-----------------------------------------------------------------------------
(* Properties of the two listeners (SpecStreams). *)

AdsFailed == adsSub.attached /\ ~adsSub.live
FavFailed == favSub.attached /\ ~favSub.live

\* C16: the step in which a listener fails changes nothing the view shows;
\* while the failed listener is in place the value it last delivered stays,
\* and the listener is replaced only when its effect runs again for a changed
\* identity or filter, never by itself.
C16_FailedListenerFreezesView ==
    [][/\ (adsSub.attached /\ adsSub.live /\ adsSub'.attached /\ ~adsSub'.live)
             => clientVars' = clientVars
       /\ (favSub.attached /\ favSub.live /\ favSub'.attached /\ ~favSub'.live)
             => clientVars' = clientVars
       /\ AdsFailed
             => /\ ads' = ads
                /\ adsSub' # adsSub
                      => AdsDeps(db', isAuthReady', userId', queryState')
                            # AdsDeps(db, isAuthReady, userId, queryState)
       /\ FavFailed
             => /\ favorites' = favorites
                /\ favSub' # favSub
                      => FavDeps(db', isAuthReady', userId', queryState')
                            # FavDeps(db, isAuthReady, userId, queryState)]_vars

\* The ads listener has failed and the store has since got a listing that
\* the list does not show.
C16_Witness ==
    /\ AdsFailed
    /\ Len(ads) >= 1
    /\ \E id \in adDocs : id \notin ViewIds

\* C17: the attached ads listener is always the one of the current filter
\* (a filter change replaces it by a new one, the list staying as it was);
\* the list and the favorites change only by a delivery of the listener that
\* is attached then; and a filter change leaves the favorites listener and
\* the favorites it delivered as they were.
C17_ListenersDetachIndependently ==
    [][/\ adsSub.attached => (userId # Null /\ adsSub.query = queryState)
       /\ favSub.attached => (userId # Null /\ favSub.user = userId)
       /\ (queryState' # queryState /\ adsSub.attached)
             => /\ adsSub'.attached /\ adsSub'.fresh /\ adsSub'.pending
                /\ adsSub'.query = queryState'
                /\ ads' = ads
       /\ queryState' # queryState
             => favSub' = favSub /\ favorites' = favorites
       /\ ads' # ads
             => /\ adsSub.attached /\ adsSub.live
                /\ \A i \in DOMAIN ads' : MatchesFilter(queryState, adData[ads'[i]])
       /\ favorites' # favorites
             => /\ favSub.attached /\ favSub.live
                /\ favorites' = adIdsOf(favDocs[userId])]_vars

\* A filter has just been set: the new ads listener has not delivered yet,
\* the favorites listener has, and its set is not empty.
C17_Witness ==
    /\ adsSub.attached /\ adsSub.fresh
    /\ queryState # EmptyQuery
    /\ FavSynced /\ favorites # NoFavorites

-----------------------------------------------------------------------------
(* Frame of a toggle (SpecLedger). *)

\* C18: a step that changes the favorites record of U is the commit of one
\* toggle of U for some X: the membership of X is flipped, that of every
\* other id is as before, the records of the other identities and the
\* listings are as before; and when no toggle is in flight every id toggled
\* an odd number of times is flipped, also when toggles of distinct ids ran
\* concurrently.
C18_ToggleChangesOnlyItsEntry ==
    /\ [][\A u \in Users :
             favDocs'[u] # favDocs[u]
                => /\ \E t \in TxIds :
                         /\ txs[t].pc = "set" /\ txs[t].user = u
                         /\ FavSet(favDocs'[u])
                               = SymDiff(FavSet(favDocs[u]), {txs[t].adId})
                   /\ \A v \in Users \ {u} : favDocs'[v] = favDocs[v]
                   /\ adDocs' = adDocs /\ adData' = adData]_vars
    /\ [](\A u \in Users :
             ~InFlight(u) =>
                 \A x \in AdIds :
                     (x \in FavSet(favDocs[u])) # (x \in FavSet(favDocs0[u]))
                        <=> x \in parity[u])

\* A toggle of one id has committed while a toggle of another id, which had
\* read the record before, waits to be run again.
C18_Witness ==
    \E t \in TxIds, x \in AdIds :
        /\ txs[t].pc = "set" /\ txs[t].stale
        /\ x # txs[t].adId
        /\ parity[txs[t].user] = {x}
        /\ FavSet(favDocs[txs[t].user]) # {}

-----------------------------------------------------------------------------
(* Identities and the view (SpecJoin). *)

NoneFlaggedSaved == \A i \in DOMAIN adsWithFavorites : ~adsWithFavorites[i].isSaved

\* C19, as claimed: while no identity is established no listener is attached
\* and no listing is shown as saved; while the identity is U the flags come
\* from the record of U alone, so if that record has never held an id (it is
\* absent or has no adIds mapping) no listing is shown as saved.
C19_ViewNeverMixesIdentities ==
    /\ userId = Null => (~adsSub.attached /\ ~favSub.attached /\ NoneFlaggedSaved)
    /\ (userId # Null /\ ~favDocs[userId].hasAdIds) => NoneFlaggedSaved

\* C19, the part about the listeners: none is attached without an identity,
\* and an attached favorites listener is that of the current identity.
C19_ListenersFollowIdentity ==
    /\ userId = Null => (~adsSub.attached /\ ~favSub.attached)
    /\ favSub.attached => favSub.user = userId

====
